---------------------------- MODULE Spec2Model ----------------------------
(***************************************************************************)
(* A model of the CSV record store of cookie-manager.js: the text codec    *)
(* (CsvUtils), the predicate builder (csvDataFilter), the query executor   *)
(* (csvDataFetcher), the mutation executor (csvModifyHandler) and the      *)
(* facade (csvDb) that sequences read -> compute -> probe -> write against *)
(* the GitHub contents API.                                                *)
(*                                                                         *)
(* A JavaScript string is a sequence of one-character strings.  null and   *)
(* undefined are two values that are no such sequence.  A JavaScript       *)
(* object (a row, a record) is a function from field names to values; a    *)
(* missing property is a name outside its DOMAIN.                          *)
(***************************************************************************)
EXTENDS Integers, Sequences, FiniteSets, TLC

VARIABLES
    store,      \* the table's object in the repository: [exists, body]
    pc,         \* per client: where its facade operation stands
    req,        \* per client: the operation it runs (kind and arguments)
    loc,        \* per client: the locals of the running execute()
    calls,      \* per client: the backend requests of its operation, in order
    ops,        \* the number of facade operations started so far
    call        \* the last application of a pure function: arguments and result

vars == <<store, pc, req, loc, calls, ops, call>>

-----------------------------------------------------------------------------
(* Characters and values *)

NL     == "\n"
QUOTE  == "\""
COMMA  == ","
BSLASH == "\\"
SP     == " "
CR     == "\r"

\* the white space String.prototype.trim and parseFloat skip
WhiteSpace == {SP, NL, CR}

\* the characters the '.' of a regular expression does not match
LineTerminators == {NL, CR}

Null      == <<"null">>
Undefined == <<"undefined">>

IsNullish(v) == v = Null \/ v = Undefined

Range(s) == {s[i] : i \in DOMAIN s}

\* obj[name] of JavaScript: undefined for a missing property
Get(obj, name) == IF name \in DOMAIN obj THEN obj[name] ELSE Undefined

\* String.prototype.includes for one character
Includes(s, c) == \E i \in DOMAIN s : s[i] = c

\* Array.prototype.join
RECURSIVE Join(_, _)
Join(parts, sep) ==
    IF parts = <<>> THEN <<>>
    ELSE IF Len(parts) = 1 THEN parts[1]
    ELSE parts[1] \o sep \o Join(Tail(parts), sep)

\* String.prototype.split('\n'): always at least one piece
RECURSIVE SplitFrom(_, _, _)
SplitFrom(s, i, cur) ==
    IF i > Len(s) THEN <<cur>>
    ELSE IF s[i] = NL THEN <<cur>> \o SplitFrom(s, i + 1, <<>>)
    ELSE SplitFrom(s, i + 1, Append(cur, s[i]))

SplitLines(s) == SplitFrom(s, 1, <<>>)

\* !line.trim(): the line holds white space only
IsBlank(line) == \A i \in DOMAIN line : line[i] \in WhiteSpace

\* String.prototype.replace(/\\c/g, c): every backslash followed by c becomes c
RECURSIVE ReplaceEscaped(_, _, _)
ReplaceEscaped(s, c, i) ==
    IF i > Len(s) THEN <<>>
    ELSE IF s[i] = BSLASH /\ i + 1 <= Len(s) /\ s[i + 1] = c
         THEN <<c>> \o ReplaceEscaped(s, c, i + 2)
    ELSE <<s[i]>> \o ReplaceEscaped(s, c, i + 1)

-----------------------------------------------------------------------------
(* CsvUtils *)

unescapeField(field) ==
    ReplaceEscaped(ReplaceEscaped(field, QUOTE, 1), COMMA, 1)

RECURSIVE ParseFrom(_, _, _, _, _)
ParseFrom(line, i, current, inQuotes, result) ==
    IF i > Len(line) THEN Append(result, unescapeField(current))
    ELSE IF inQuotes
         THEN IF line[i] = QUOTE /\ i + 1 <= Len(line) /\ line[i + 1] = QUOTE
              THEN ParseFrom(line, i + 2, Append(current, QUOTE), TRUE, result)
              ELSE IF line[i] = QUOTE
                   THEN ParseFrom(line, i + 1, current, FALSE, result)
                   ELSE ParseFrom(line, i + 1, Append(current, line[i]), TRUE, result)
         ELSE IF line[i] = QUOTE
              THEN ParseFrom(line, i + 1, current, TRUE, result)
              ELSE IF line[i] = COMMA
                   THEN ParseFrom(line, i + 1, <<>>, FALSE,
                                  Append(result, unescapeField(current)))
                   ELSE ParseFrom(line, i + 1, Append(current, line[i]), FALSE, result)

parseCsvLine(line) == ParseFrom(line, 1, <<>>, FALSE, <<>>)

RECURSIVE DoubleQuotes(_)
DoubleQuotes(s) ==
    IF s = <<>> THEN <<>>
    ELSE (IF Head(s) = QUOTE THEN <<QUOTE, QUOTE>> ELSE <<Head(s)>>)
         \o DoubleQuotes(Tail(s))

escapeCsvField(field) ==
    IF IsNullish(field) THEN <<>>
    ELSE IF Includes(field, COMMA) \/ Includes(field, QUOTE) \/ Includes(field, NL)
         THEN <<QUOTE>> \o DoubleQuotes(field) \o <<QUOTE>>
         ELSE field


\* parseFloat on the model's alphabet (no sign, point or exponent character):
\* leading white space is skipped, then the longest run of digits is read;
\* NaN when there is no digit there.
NaN == -1

Digits == {"0", "1", "2", "3", "4", "5", "6", "7", "8", "9"}

DigitVal(c) ==
    CASE c = "0" -> 0 [] c = "1" -> 1 [] c = "2" -> 2 [] c = "3" -> 3
      [] c = "4" -> 4 [] c = "5" -> 5 [] c = "6" -> 6 [] c = "7" -> 7
      [] c = "8" -> 8 [] c = "9" -> 9

RECURSIVE SkipSpace(_, _)
SkipSpace(s, i) ==
    IF i <= Len(s) /\ s[i] \in WhiteSpace THEN SkipSpace(s, i + 1) ELSE i

\* the value of the digit run of s that starts at i, given the value so far
RECURSIVE DigitRun(_, _, _)
DigitRun(s, i, acc) ==
    IF i <= Len(s) /\ s[i] \in Digits
    THEN DigitRun(s, i + 1, 10 * acc + DigitVal(s[i]))
    ELSE acc

RECURSIVE RunEnd(_, _)
RunEnd(s, i) == IF i <= Len(s) /\ s[i] \in Digits THEN RunEnd(s, i + 1) ELSE i

parseFloat(s) ==
    IF IsNullish(s) THEN NaN
    ELSE LET i == SkipSpace(s, 1)
         IN  IF i <= Len(s) /\ s[i] \in Digits THEN DigitRun(s, i, 0) ELSE NaN

\* The root collation order of the model's characters: white space, then
\* punctuation, then digits, then letters.
DigitWeight == 10

Weight(c) ==
    CASE c = NL -> 1 [] c = CR -> 2 [] c = SP -> 3 [] c = COMMA -> 4
      [] c = QUOTE -> 5 [] c = BSLASH -> 6 [] c \in Digits -> DigitWeight
      [] c = "a" -> 20 [] c = "b" -> 21 [] c = "c" -> 22 [] c = "d" -> 23
      [] c = "x" -> 30 [] c = "y" -> 31 [] c = "z" -> 32
      [] OTHER -> 40

\* The collation elements of s under {numeric: true}: one per character, a run
\* of digits being one element that carries the run's value.
RECURSIVE Elements(_, _)
Elements(s, i) ==
    IF i > Len(s) THEN <<>>
    ELSE IF s[i] \in Digits
         THEN <<<<DigitWeight, DigitRun(s, i, 0)>>>> \o Elements(s, RunEnd(s, i))
         ELSE <<<<Weight(s[i]), 0>>>> \o Elements(s, i + 1)

RECURSIVE CompareElements(_, _)
CompareElements(x, y) ==
    IF x = <<>> /\ y = <<>> THEN 0
    ELSE IF x = <<>> THEN -1
    ELSE IF y = <<>> THEN 1
    ELSE IF Head(x)[1] # Head(y)[1]
         THEN (IF Head(x)[1] < Head(y)[1] THEN -1 ELSE 1)
    ELSE IF Head(x)[2] # Head(y)[2]
         THEN (IF Head(x)[2] < Head(y)[2] THEN -1 ELSE 1)
    ELSE CompareElements(Tail(x), Tail(y))

\* a.localeCompare(b, undefined, {numeric: true})
localeCompare(a, b) == CompareElements(Elements(a, 1), Elements(b, 1))

compareValue(a, b) ==
    IF parseFloat(a) # NaN /\ parseFloat(b) # NaN
    THEN parseFloat(a) - parseFloat(b)
    ELSE localeCompare(a, b)

-----------------------------------------------------------------------------
(* csvDataFilter: a predicate is a record [op, field, value, values]: value  *)
(* is the argument (a string or Null; the pattern of like), values the set   *)
(* of the rest arguments of in and notIn.  A filter is the sequence          *)
(* _filters, in the order the builder calls appended them.                   *)

\* (value === null || value === undefined) ? null : String(value)
StrValue(value) == IF IsNullish(value) THEN Null ELSE value

eq(row, fieldName, value) ==
    LET v == Get(row, fieldName)
    IN  IF IsNullish(v) THEN StrValue(value) = Null
        ELSE IF StrValue(value) = Null THEN FALSE
        ELSE v = StrValue(value)

notEq(row, fieldName, value) ==
    LET v == Get(row, fieldName)
    IN  IF IsNullish(v) THEN StrValue(value) # Null
        ELSE IF StrValue(value) = Null THEN TRUE
        ELSE v # StrValue(value)

inValues(row, fieldName, values) ==
    LET set == {StrValue(x) : x \in values}
        v == Get(row, fieldName)
        valueToCheck == IF v = Undefined THEN Null ELSE v
    IN  valueToCheck \in set

notIn(row, fieldName, values) ==
    LET set == {StrValue(x) : x \in values}
        v == Get(row, fieldName)
        valueToCheck == IF v = Undefined THEN Null ELSE v
    IN  valueToCheck \notin set

\* The anchored regular expression built from the pattern: % is .*, _ is . (any
\* character but a line terminator), every other character is itself.
RECURSIVE LikeMatch(_, _, _, _)
LikeMatch(p, i, s, j) ==
    IF i > Len(p) THEN j > Len(s)
    ELSE IF p[i] = "%"
         THEN LikeMatch(p, i + 1, s, j)
              \/ (j <= Len(s) /\ s[j] \notin LineTerminators
                  /\ LikeMatch(p, i, s, j + 1))
    ELSE IF p[i] = "_"
         THEN j <= Len(s) /\ s[j] \notin LineTerminators
              /\ LikeMatch(p, i + 1, s, j + 1)
    ELSE j <= Len(s) /\ s[j] = p[i] /\ LikeMatch(p, i + 1, s, j + 1)

like(row, fieldName, pattern) ==
    LET v == IF IsNullish(Get(row, fieldName)) THEN <<>> ELSE Get(row, fieldName)
    IN  LikeMatch(pattern, 1, v, 1)

Tester(op, cmpResult) ==
    CASE op = "gt" -> cmpResult > 0
      [] op = "ge" -> cmpResult >= 0
      [] op = "lt" -> cmpResult < 0
      [] op = "le" -> cmpResult <= 0

cmpHelper(row, fieldName, value, op) ==
    LET v == Get(row, fieldName)
    IN  IF IsNullish(v) \/ StrValue(value) = Null THEN FALSE
        ELSE Tester(op, compareValue(v, StrValue(value)))

\* one element of _filters applied to a row
PredTest(f, row) ==
    CASE f.op = "eq"    -> eq(row, f.field, f.value)
      [] f.op = "notEq" -> notEq(row, f.field, f.value)
      [] f.op = "in"    -> inValues(row, f.field, f.values)
      [] f.op = "notIn" -> notIn(row, f.field, f.values)
      [] f.op = "like"  -> like(row, f.field, f.value)
      [] OTHER          -> cmpHelper(row, f.field, f.value, f.op)

\* only the first predicate decides
testFirstOnly(filters, row) ==
    filters = <<>> \/ PredTest(Head(filters), row)

\* _filters.every(f => f(row)): left to right, stopping at the first false
RECURSIVE test(_, _)
test(filters, row) ==
    IF filters = <<>> THEN TRUE
    ELSE IF ~PredTest(Head(filters), row) THEN FALSE
    ELSE test(Tail(filters), row)

-----------------------------------------------------------------------------
(* Rows *)

\* if (lines.length === 0) throw new Error("csv must contains header")
HasNoHeader(lines) == Len(lines) = 0

\* headers.forEach((header, index) => row[header] = values[index] || ''):
\* a header name that occurs twice keeps the value of its last column
LastIndex(headers, h) ==
    CHOOSE i \in DOMAIN headers :
        headers[i] = h /\ \A j \in DOMAIN headers : headers[j] = h => j <= i

RowOf(headers, values) ==
    [h \in Range(headers) |->
        IF LastIndex(headers, h) <= Len(values)
        THEN values[LastIndex(headers, h)]
        ELSE <<>>]

\* prepareRecord: headers.map(header => row[header] ?? '')
prepareRecord(headers, row) ==
    [i \in DOMAIN headers |->
        IF IsNullish(Get(row, headers[i])) THEN <<>> ELSE Get(row, headers[i])]

-----------------------------------------------------------------------------
(* csvDataFetcher.  A query is [filter, offset, limit, orderField, orderDesc, *)
(* fieldNames]: orderField Null is the handler's default, fieldNames are the  *)
(* rest arguments of selectFrom.  The result is [error, rows].                *)

\* lineLimit's default, Number.MAX_VALUE: beyond every length of the model
MAX_VALUE == 1000000

\* the loop of fetch over lines[from..]: parse, build the row, keep it when
\* shouldHandleData (the filter) accepts it
RECURSIVE FetchRows(_, _, _, _)
FetchRows(lines, headers, filters, i) ==
    IF i > Len(lines) THEN <<>>
    ELSE IF IsBlank(lines[i]) THEN FetchRows(lines, headers, filters, i + 1)
    ELSE LET row == RowOf(headers, parseCsvLine(lines[i]))
         IN  (IF test(filters, row) THEN <<row>> ELSE <<>>)
             \o FetchRows(lines, headers, filters, i + 1)

\* the comparator handed to records.sort
SortCmp(a, b, field, desc) ==
    IF desc THEN 0 - compareValue(a[field], b[field])
    ELSE compareValue(a[field], b[field])

\* x put before the elements it ties with
RECURSIVE InsertSortedUnstable(_, _, _, _)
InsertSortedUnstable(s, x, field, desc) ==
    IF s = <<>> THEN <<x>>
    ELSE IF SortCmp(s[Len(s)], x, field, desc) >= 0
         THEN Append(InsertSortedUnstable(SubSeq(s, 1, Len(s) - 1), x, field, desc),
                     s[Len(s)])
         ELSE Append(s, x)

\* x put into the sorted sequence s behind every element that is not greater
RECURSIVE InsertSorted(_, _, _, _)
InsertSorted(s, x, field, desc) ==
    IF s = <<>> THEN <<x>>
    ELSE IF SortCmp(s[Len(s)], x, field, desc) > 0
         THEN Append(InsertSorted(SubSeq(s, 1, Len(s) - 1), x, field, desc), s[Len(s)])
         ELSE Append(s, x)

\* Array.prototype.sort (stable), as an insertion sort
RECURSIVE SortFrom(_, _, _, _, _)
SortFrom(records, i, acc, field, desc) ==
    IF i > Len(records) THEN acc
    ELSE SortFrom(records, i + 1, InsertSorted(acc, records[i], field, desc), field, desc)

SortRecords(records, field, desc) == SortFrom(records, 1, <<>>, field, desc)

Min(a, b) == IF a <= b THEN a ELSE b

Max(a, b) == IF a >= b THEN a ELSE b

\* Array.prototype.slice(start, end): a negative index counts from the end
Slice(records, start, end) ==
    LET b == IF start < 0 THEN Max(Len(records) + start, 0) ELSE start
        e == IF end < 0 THEN Max(Len(records) + end, 0) ELSE Min(end, Len(records))
    IN  IF b >= e THEN <<>> ELSE SubSeq(records, b + 1, e)

\* selectField: fieldNames.length === 0 ? null : fieldNames
selectField(fieldNames) == fieldNames

Project(row, selectFields) ==
    [f \in Range(selectFields) |-> Get(row, f)]

fetch(csvContent, q) ==
    LET lines   == SplitLines(csvContent)
        headers == parseCsvLine(lines[1])
        records == FetchRows(lines, headers, q.filter, 2)
        start   == q.offset
        end     == start + q.limit
    IN  IF HasNoHeader(lines) THEN [error |-> "Error", rows |-> <<>>]
        ELSE IF q.orderField # Null /\ q.orderField \notin Range(headers)
           /\ Len(records) >= 2
        THEN \* undefined.localeCompare in the comparator
             [error |-> "TypeError", rows |-> <<>>]
        ELSE LET sorted == IF q.orderField # Null
                           THEN SortRecords(records, q.orderField, q.orderDesc)
                           ELSE records
                 page   == Slice(sorted, start, end)
             IN  [error |-> "none",
                  rows  |-> IF selectField(q.fieldNames) = <<>> THEN page
                            ELSE [i \in DOMAIN page |->
                                     Project(page[i], selectField(q.fieldNames))]]

-----------------------------------------------------------------------------
(* csvModifyHandler and the four handlers csvDb installs.  A plan is one of   *)
(*   [kind |-> "update",   filter, assign]   assign: field -> value set()     *)
(*   [kind |-> "updateBy", keyField, datas]  datas: the value() calls         *)
(*   [kind |-> "delete",   filter]                                            *)
(*   [kind |-> "insert",   rows]             rows: the value() calls          *)

\* String(x) as a property key
UndefinedKey == <<"u", "n", "d", "e", "f", "i", "n", "e", "d">>
NullKey      == <<"n", "u", "l", "l">>

KeyOf(v) == IF v = Undefined THEN UndefinedKey ELSE IF v = Null THEN NullKey ELSE v

\* updateDatas.hasOwnProperty(key) after the value() calls
HasData(datas, keyField, key) ==
    \E i \in DOMAIN datas : KeyOf(Get(datas[i], keyField)) = key

\* updateDatas[key]: the last value() call with that key
DataFor(datas, keyField, key) ==
    datas[CHOOSE i \in DOMAIN datas :
            /\ KeyOf(Get(datas[i], keyField)) = key
            /\ \A j \in DOMAIN datas :
                   KeyOf(Get(datas[j], keyField)) = key => j <= i]

shouldHandleData(plan, row) ==
    CASE plan.kind = "update"   -> test(plan.filter, row)
      [] plan.kind = "delete"   -> test(plan.filter, row)
      [] plan.kind = "insert"   -> FALSE
      [] plan.kind = "updateBy" ->
            IF IsNullish(Get(row, plan.keyField)) THEN FALSE
            ELSE HasData(plan.datas, plan.keyField, Get(row, plan.keyField))

\* set(field, value): updateFields[field] = value == null ? '' : String(value)
SetField(value) == IF IsNullish(value) THEN <<>> ELSE value

\* an updateBy that laid the replacement over the row it found
updateByMerging(plan, row) ==
    LET d == DataFor(plan.datas, plan.keyField, Get(row, plan.keyField))
    IN  [f \in DOMAIN row \cup DOMAIN d |-> IF f \in DOMAIN d THEN d[f] ELSE row[f]]

\* handleData of updateBy: return updateDatas[row[fieldName]]
updateByHandleData(plan, row) ==
    DataFor(plan.datas, plan.keyField, Get(row, plan.keyField))

\* handleData: <<newRow>>, or <<>> for null (drop the row)
handleData(plan, row) ==
    CASE plan.kind = "update" ->
            <<[f \in DOMAIN row \cup DOMAIN plan.assign |->
                IF f \in DOMAIN plan.assign THEN SetField(plan.assign[f]) ELSE row[f]]>>
      [] plan.kind = "delete"   -> <<>>
      [] plan.kind = "insert"   -> <<row>>
      [] plan.kind = "updateBy" -> <<updateByHandleData(plan, row)>>

appendRows(plan) == IF plan.kind = "insert" THEN plan.rows ELSE <<>>

\* a pass-through that wrote the row object back, one value per header
PassThroughPadded(headers, values) == prepareRecord(headers, RowOf(headers, values))

\* records.push(values): a row the handler does not take is kept as parsed
PassThrough(headers, values) == values

\* the loop of execute over lines[i..]: [records, affectedCount]
RECURSIVE ModifyRows(_, _, _, _)
ModifyRows(lines, headers, plan, i) ==
    IF i > Len(lines) THEN [records |-> <<>>, affectedCount |-> 0]
    ELSE IF IsBlank(lines[i]) THEN ModifyRows(lines, headers, plan, i + 1)
    ELSE LET values == parseCsvLine(lines[i])
             row    == RowOf(headers, values)
             rest   == ModifyRows(lines, headers, plan, i + 1)
         IN  IF shouldHandleData(plan, row)
             THEN LET newRow == handleData(plan, row)
                  IN  [records |->
                          (IF newRow # <<>>
                           THEN <<prepareRecord(headers, newRow[1])>>
                           ELSE <<>>) \o rest.records,
                       affectedCount |-> rest.affectedCount + 1]
             ELSE [records |-> <<PassThrough(headers, values)>> \o rest.records,
                   affectedCount |-> rest.affectedCount]

EncodeRecord(values) ==
    Join([i \in DOMAIN values |-> escapeCsvField(values[i])], <<COMMA>>)

\* the second loop of execute: one prepared record per row of appendRows()
Appended(headers, plan) ==
    [i \in DOMAIN appendRows(plan) |-> prepareRecord(headers, appendRows(plan)[i])]

\* [newHeaders, ...records.map(values => values.map(escapeCsvField).join(','))]
\*     .join('\n')
NewCsv(headers, records) ==
    Join(<<Join(headers, <<COMMA>>)>>
            \o [i \in DOMAIN records |-> EncodeRecord(records[i])],
         <<NL>>)

\* dropped rows are not counted
ScanRowsNotCountingDropped(lines, headers, plan) ==
    LET r == ModifyRows(lines, headers, plan, 2)
    IN  [r EXCEPT !.affectedCount =
            IF plan.kind = "delete" THEN 0 ELSE r.affectedCount]

\* the first loop of execute, from the first data line
ScanRows(lines, headers, plan) == ModifyRows(lines, headers, plan, 2)

\* execute, with the records array it builds kept in the result
execute(csvContent, plan) ==
    LET lines    == SplitLines(csvContent)
        headers  == parseCsvLine(lines[1])
        scanned  == ScanRows(lines, headers, plan)
        appended == Appended(headers, plan)
        records  == scanned.records \o appended
    IN  IF HasNoHeader(lines)
        THEN [error |-> "Error", affectedCount |-> 0, csvContent |-> <<>>,
              records |-> <<>>]
        ELSE [error         |-> "none",
              affectedCount |-> scanned.affectedCount + Len(appended),
              csvContent    |-> NewCsv(headers, records),
              records       |-> records]

-----------------------------------------------------------------------------
(* The facade csvDb over the GitHub contents API.  One table, db/cookie.csv.  *)
(* Each client runs facade operations one after another; an operation        *)
(* suspends at each backend request (await), where the other client may run. *)

NumClients == 2
MaxOps     == 2

Clients == 1 .. NumClients

\* The sha GitHub reports for a file is the hash of its content: equal for equal
\* contents, different for different ones.
Sha(body) == body

Absent == [exists |-> FALSE, body |-> <<>>, sha |-> Null]

Stored(body) == [exists |-> TRUE, body |-> body, sha |-> Sha(body)]

\* the outcomes of a request other than success: 404, 409, 422 (a PUT without
\* sha for a file that exists), a network failure (status 0), another status
Failures == {"Transport", "Remote"}

K == <<"k">>
V == <<"v">>
A == <<"a">>
B == <<"b">>

TableHeaders == <<K, V>>

\* the predicates as the builder methods append them
Pred(op, field, value) == [op |-> op, field |-> field, value |-> value, values |-> {}]

PredIn(op, field, values) ==
    [op |-> op, field |-> field, value |-> Null, values |-> values]

EqA == <<Pred("eq", K, A)>>

Plans ==
    {[kind |-> "insert", rows |-> <<[f \in {K, V} |-> IF f = K THEN x ELSE <<"1">>]>>] :
        x \in {A, B}}
    \cup {[kind |-> "update", filter |-> EqA, assign |-> [f \in {V} |-> <<"2">>]],
          [kind |-> "delete", filter |-> EqA],
          [kind |-> "updateBy", keyField |-> K,
           datas |-> <<[f \in {K, V} |-> IF f = K THEN A ELSE <<"3">>]>>]}

\* the builder calls of selectFrom(...).eq(K, A).offset(k).limit(m)
Queries ==
    {[filter |-> EqA, offset |-> k, limit |-> m, orderField |-> Null,
      orderDesc |-> FALSE, fieldNames |-> <<>>] :
        k \in {-1, 0}, m \in {-1, MAX_VALUE}}

\* an offset() that accepted every number
offsetUnchecked(k) == FALSE

\* offset(k) throws: if (offset < 0) throw new Error("Offset cannot be negative")
offset(k) == k < 0

\* limit(m) throws: if (limit < 0) throw new Error("Limit cannot be negative")
limit(m) == m < 0

\* one of the builder calls of the query throws, and fetch() is never reached
BuilderThrows(q) == offset(q.offset) \/ limit(q.limit)

Requests ==
    {[op |-> "mutation", plan |-> pl] : pl \in Plans}
    \cup {[op |-> "select", query |-> q, one |-> o] :
            q \in Queries, o \in BOOLEAN}
    \cup {[op |-> "create", headers |-> TableHeaders],
          [op |-> "createIfNotExist", headers |-> TableHeaders]}

NoRequest == [op |-> "none"]

\* the locals of an operation before its first request
NoLocals ==
    [csvContent |-> <<>>, readSha |-> Null, newCsv |-> <<>>, affectedCount |-> 0,
     probeSha |-> Null, rows |-> <<>>, result |-> "pending",
     overlapped |-> {}, raced |-> {}]

\* a backend request as logged: m is "read" (the GET of getFileContent), "probe"
\* (the GET of getFileInfo) or "write" (the PUT), with what a PUT carries and
\* how the request ended
Request(m, sha, content, status) ==
    [m |-> m, sha |-> sha, content |-> content, status |-> status]

\* the body create() sends: headers.join(',') + '\n'
CreateContent(headers) == Join(headers, <<COMMA>>) \o <<NL>>

\* the body createIfNotExist() sends, createFile(path, headers): the array is
\* turned into a string by encodeURIComponent, which joins it with commas
CreateIfNotExistContent(headers) == Join(headers, <<COMMA>>)

\* a compare-and-swap on what execute() read
WriteShaFromRead(l) == l.readSha

\* updateFile: the sha sent with the PUT is the one getFileInfo just returned
WriteSha(l) == l.probeSha

\* a PUT with an expected sha is accepted iff the file exists with that sha; a
\* PUT without one (createFile) iff the file does not exist
PutStatus(st, sha) ==
    IF sha = Null THEN (IF st.exists THEN "Exists" ELSE "ok")
    ELSE IF ~st.exists THEN "NotFound"
    ELSE IF st.sha = sha THEN "ok" ELSE "Conflict"

\* where an operation goes when its PUT fails: the error propagates out of
\* updateFile and execute, nothing catches it
RetryFailedWrite == "probe"

AfterFailedWrite == "done"

Init ==
    /\ store \in {Absent, Stored(CreateIfNotExistContent(TableHeaders))}
    /\ pc = [p \in Clients |-> "idle"]
    /\ req = [p \in Clients |-> NoRequest]
    /\ loc = [p \in Clients |-> NoLocals]
    /\ calls = [p \in Clients |-> <<>>]
    /\ ops = 0
    /\ call = [fn |-> "none"]

\* client p may start an operation
CanStart(p) == pc[p] \in {"idle", "done"} /\ ops < MaxOps

\* the bookkeeping of a started operation, whose first request has ended: the
\* requests made so far are logged, the locals are those in l
Started(p, r, requests, l, next) ==
    /\ req' = [req EXCEPT ![p] = r]
    /\ calls' = [calls EXCEPT ![p] = requests]
    /\ loc' = [loc EXCEPT ![p] = l]
    /\ pc' = [pc EXCEPT ![p] = next]
    /\ ops' = ops + 1
    /\ UNCHANGED call

\* what getFileInfo / getFileContent answer when nothing else goes wrong
GetStatus == IF store.exists THEN "ok" ELSE "NotFound"

\* an execute() that caught the failed read and went on to updateFile
ContinueAfterFailedRead == "probe"

\* execute(): await getFileContent(path) is not in a try: the error it throws
\* ends the operation
AfterFailedRead == "done"

\* execute() of update, updateBy, deleteFrom, insertInto up to its second
\* await: getFileContent answers, csvHandler.execute runs, updateFile calls
\* getFileInfo
Execute(p) ==
    /\ CanStart(p)
    /\ \E r \in {x \in Requests : x.op = "mutation"},
          status \in {GetStatus} \cup Failures :
          /\ IF status = "ok"
             THEN LET out == execute(store.body, r.plan)
                  IN  IF out.error # "none"
                      THEN Started(p, r, <<Request("read", Null, <<>>, "ok")>>,
                                   [NoLocals EXCEPT !.csvContent = store.body,
                                                    !.readSha = store.sha,
                                                    !.result = out.error],
                                   "done")
                      ELSE Started(p, r, <<Request("read", Null, <<>>, "ok")>>,
                              [NoLocals EXCEPT !.csvContent = store.body,
                                               !.readSha = store.sha,
                                               !.newCsv = out.csvContent,
                                               !.affectedCount = out.affectedCount],
                              "probe")
             ELSE Started(p, r, <<Request("read", Null, <<>>, status)>>,
                          [NoLocals EXCEPT !.result = status], AfterFailedRead)
          /\ UNCHANGED store

\* a fetch that asked getFileInfo whether the file exists before reading it
FetchCallsWithProbe(status) ==
    <<Request("probe", Null, <<>>, status), Request("read", Null, <<>>, status)>>

\* the requests of fetch(): await getFileContent(path), one GET
FetchCalls(status) == <<Request("read", Null, <<>>, status)>>

\* fetchOne: values.length > 0 ? values[0] : null, the row as a sequence of at
\* most one row
fetchOne(values) == IF Len(values) > 0 THEN <<values[1]>> ELSE <<>>

\* fetch() or fetchOne() of selectFrom: getFileContent answers,
\* csvFetcher.fetch runs
Fetch(p) ==
    /\ CanStart(p)
    /\ \E r \in {x \in Requests : x.op = "select" /\ ~BuilderThrows(x.query)},
          status \in {GetStatus} \cup Failures :
          /\ IF status = "ok"
             THEN LET out == fetch(store.body, r.query)
                  IN  Started(p, r, FetchCalls("ok"),
                              [NoLocals EXCEPT !.csvContent = store.body,
                                               !.readSha = store.sha,
                                               !.rows = IF r.one THEN fetchOne(out.rows)
                                                        ELSE out.rows,
                                               !.result = IF out.error = "none"
                                                          THEN "ok" ELSE out.error],
                              "done")
             ELSE Started(p, r, FetchCalls(status),
                          [NoLocals EXCEPT !.result = status], "done")
          /\ UNCHANGED store

\* selectFrom(...).offset(k) or .limit(m) throws: the caller's chain ends there,
\* before fetch() and without a request
SelectRejected(p) ==
    /\ CanStart(p)
    /\ \E r \in {x \in Requests : x.op = "select" /\ BuilderThrows(x.query)} :
          /\ req' = [req EXCEPT ![p] = r]
          /\ calls' = [calls EXCEPT ![p] = <<>>]
          /\ loc' = [loc EXCEPT ![p] = [NoLocals EXCEPT !.result = "Error"]]
          /\ pc' = [pc EXCEPT ![p] = "done"]
          /\ ops' = ops + 1
          /\ UNCHANGED <<store, call>>

\* a createFile that sent the sha of the file it found
CreateShaOfCurrent(st) == st.sha

\* createFile: the PUT carries message, content and branch, no sha
CreateSha(st) == Null

\* create(): the PUT of createFile answers
Create(p) ==
    /\ CanStart(p)
    /\ \E r \in {x \in Requests : x.op = "create"},
          status \in {PutStatus(store, CreateSha(store))} \cup Failures :
          /\ Started(p, r, <<Request("write", CreateSha(store),
                                     CreateContent(r.headers), status)>>,
                     [NoLocals EXCEPT !.result = status], "done")
          /\ store' = IF status = "ok" THEN Stored(CreateContent(r.headers)) ELSE store

\* a createIfNotExist that took every failed probe for a missing file
AfterProbeAnyError(status) == IF status = "ok" THEN "done" ELSE "write"

\* createIfNotExist after getFileInfo: return false; on an error whose status
\* is 404 go on to createFile; throw any other error
AfterProbe(status) == IF status = "NotFound" THEN "write" ELSE "done"

\* createIfNotExist() up to its second await: getFileInfo answers; the
\* operation returns false, or on 404 calls createFile, or ends with the error
CreateIfNotExist(p) ==
    /\ CanStart(p)
    /\ \E r \in {x \in Requests : x.op = "createIfNotExist"},
          status \in {GetStatus} \cup Failures :
          /\ Started(p, r, <<Request("probe", Null, <<>>, status)>>,
                     [NoLocals EXCEPT !.result =
                          IF AfterProbe(status) = "write" THEN "pending" ELSE status],
                     AfterProbe(status))
          /\ UNCHANGED store

\* the request of a running operation ends with status, and the operation
\* with it or goes on
Answered(p, request, l, next) ==
    /\ calls' = [calls EXCEPT ![p] = Append(@, request)]
    /\ loc' = [loc EXCEPT ![p] = l]
    /\ pc' = [pc EXCEPT ![p] = next]
    /\ UNCHANGED <<store, req, ops, call>>

\* an updateFile that sent the PUT with the sha of the read, without asking
\* getFileInfo again
UpdateFileWithoutProbe(p) ==
    /\ pc[p] = "probe"
    /\ loc' = [loc EXCEPT ![p] = [loc[p] EXCEPT !.probeSha = loc[p].readSha]]
    /\ pc' = [pc EXCEPT ![p] = "write"]
    /\ UNCHANGED <<store, req, ops, call, calls>>

\* getFileInfo answers updateFile, which then sends the PUT
UpdateFileProbe(p) ==
    /\ pc[p] = "probe"
    /\ \E status \in {GetStatus} \cup Failures :
          IF status = "ok"
          THEN Answered(p, Request("probe", Null, <<>>, "ok"),
                        [loc[p] EXCEPT !.probeSha = store.sha], "write")
          ELSE Answered(p, Request("probe", Null, <<>>, status),
                        [loc[p] EXCEPT !.result = status], "done")

\* what the pending PUT of client p carries
PutSha(p) == IF req[p].op = "mutation" THEN WriteSha(loc[p]) ELSE CreateSha(store)

PutContent(p) ==
    IF req[p].op = "mutation" THEN loc[p].newCsv
    ELSE CreateIfNotExistContent(req[p].headers)

\* the PUT of updateFile, or of createIfNotExist's createFile, answers
Put(p) ==
    /\ pc[p] = "write"
    /\ \E status \in {PutStatus(store, PutSha(p))} \cup Failures :
          IF status # "ok"
          THEN Answered(p, Request("write", PutSha(p), PutContent(p), status),
                        [loc[p] EXCEPT !.result = status], AfterFailedWrite)
          ELSE /\ store' = Stored(PutContent(p))
               /\ calls' = [calls EXCEPT ![p] =
                              Append(@, Request("write", PutSha(p), PutContent(p), "ok"))]
               /\ pc' = [pc EXCEPT ![p] = "done"]
               \* bookkeeping: the clients whose write landed while a mutation
               \* was between its read and its write, or its probe and its write
               /\ loc' = [q \in Clients |->
                            IF q = p THEN [loc[q] EXCEPT !.result = "ok"]
                            ELSE IF pc[q] = "write" /\ req[q].op = "mutation"
                                 THEN [loc[q] EXCEPT !.overlapped = @ \cup {p},
                                                     !.raced = @ \cup {p}]
                            ELSE IF pc[q] = "probe"
                                 THEN [loc[q] EXCEPT !.overlapped = @ \cup {p}]
                            ELSE loc[q]]
               /\ UNCHANGED <<req, ops, call>>

Next ==
    \E p \in Clients :
        \/ Execute(p) \/ Fetch(p) \/ SelectRejected(p)
        \/ Create(p) \/ CreateIfNotExist(p)
        \/ UpdateFileProbe(p) \/ Put(p)

Spec == Init /\ [][Next]_vars

-----------------------------------------------------------------------------
(* Claims about the facade, checked under Spec *)

IsMutation(p) == req[p].op = "mutation"

LastCall(p) == calls[p][Len(calls[p])]

\* client q's operation has sent its PUT
HasWritten(q) == calls[q] # <<>> /\ LastCall(q).m = "write"

\* C1: lost update.  When a mutation q has read the body, another client's
\* write then lands (so both had read before either wrote), nothing lands
\* between q's own probe and write, and the backend does not fail q's PUT for
\* a reason of its own, then q's PUT is accepted too, and the body it stores is
\* the one computed from what q read, before the other write.
C1_LostUpdate ==
    \A p, q \in Clients :
        (/\ p # q
         /\ IsMutation(q) /\ pc[q] = "done" /\ HasWritten(q)
         /\ p \in loc[q].overlapped
         /\ loc[q].raced = {}
         /\ LastCall(q).status \notin Failures)
        => /\ LastCall(q).status = "ok"
           /\ loc[q].result = "ok"
           /\ LastCall(q).content = execute(loc[q].csvContent, req[q].plan).csvContent

\* two inserts race; both report one affected row; the first one's row is gone
C1_Witness ==
    \E p, q \in Clients :
        /\ p # q
        /\ IsMutation(p) /\ pc[p] = "done" /\ loc[p].result = "ok"
        /\ IsMutation(q) /\ pc[q] = "done" /\ loc[q].result = "ok"
        /\ req[p].plan.kind = "insert" /\ loc[p].affectedCount = 1
        /\ req[q].plan.kind = "insert" /\ req[q].plan # req[p].plan
        /\ p \in loc[q].overlapped /\ loc[q].raced = {}
        /\ store.body = LastCall(q).content
        /\ fetch(store.body,
                 [filter |-> <<Pred("eq", K, req[p].plan.rows[1][K])>>,
                  offset |-> 0, limit |-> MAX_VALUE, orderField |-> Null,
                  orderDesc |-> FALSE, fieldNames |-> <<>>]).rows = <<>>

\* C2: a successful mutation has issued exactly read, probe, write, in this
\* order; the PUT carries the whole new body computed from the body read, and
\* the sha the probe returned.
C2_CallOrder ==
    \A p \in Clients :
        (IsMutation(p) /\ pc[p] = "done" /\ loc[p].result = "ok")
        => /\ Len(calls[p]) = 3
           /\ calls[p][1].m = "read" /\ calls[p][2].m = "probe"
           /\ calls[p][3].m = "write"
           /\ calls[p][3].sha = loc[p].probeSha
           /\ calls[p][3].content
                 = execute(loc[p].csvContent, req[p].plan).csvContent

\* a successful mutation whose probe returned another sha than its read saw
C2_Witness ==
    \E p \in Clients :
        /\ IsMutation(p) /\ pc[p] = "done" /\ loc[p].result = "ok"
        /\ loc[p].probeSha # loc[p].readSha
        /\ calls[p][3].sha # loc[p].readSha

\* the step in which the PUT of a mutation of client p fails
WriteFails(p) ==
    /\ IsMutation(p) /\ pc[p] = "write"
    /\ Len(calls'[p]) = Len(calls[p]) + 1
    /\ calls'[p][Len(calls'[p])].m = "write"
    /\ calls'[p][Len(calls'[p])].status # "ok"

\* C3: when the PUT of a mutation fails, the operation is over with that error
\* (no further request), and the stored object is what it was.
C3_FailedWrite ==
    [][\A p \in Clients :
          WriteFails(p)
          => /\ store' = store
             /\ pc'[p] = "done"
             /\ loc'[p].result = calls'[p][Len(calls'[p])].status
             /\ loc'[p].result \in Failures \cup {"Conflict", "NotFound"}]_vars

\* a mutation that ended with ConflictError after its three requests
C3_Witness ==
    \E p \in Clients :
        /\ IsMutation(p) /\ pc[p] = "done" /\ Len(calls[p]) = 3
        /\ LastCall(p).status = "Conflict" /\ loc[p].result = "Conflict"

-----------------------------------------------------------------------------
(* One client, one operation after another, nothing in between: a table is   *)
(* created and mutated; each step is a whole execute() (read, executor,      *)
(* probe, write), none of whose requests fails.  call records the last one.  *)

MaxRows == 2

\* a header name that needs quoting, as a caller of create() has to pass it
QuotedName == <<QUOTE, "k", COMMA, "v", QUOTE>>
KV         == <<"k", COMMA, "v">>
\* a name whose own text is a quoted field
QuotedTwice == <<QUOTE, QUOTE>> \o QuotedName \o <<QUOTE, QUOTE>>

HeaderChoices == {TableHeaders, <<QuotedTwice>>, <<K>>}

Rec(k, v) == [f \in {K, V} |-> IF f = K THEN k ELSE v]

\* the records handed to insertInto().value() and updateBy().value()
InsertRecords ==
    {Rec(A, <<"1">>), Rec(B, <<COMMA, QUOTE>>), Rec(<<NL>>, <<"1">>),
     Rec(<<>>, <<>>), [f \in {K} |-> A], [f \in {KV} |-> B], [f \in {QuotedName} |-> A],
     [f \in {K} |-> UndefinedKey]}

EqK(x) == <<Pred("eq", K, x)>>

MutPlans ==
    {[kind |-> "insert", rows |-> <<r>>] : r \in InsertRecords}
    \cup {[kind |-> "insert", rows |-> <<>>],
          [kind |-> "insert", rows |-> <<Rec(A, <<"1">>), Rec(B, <<"1">>)>>]}
    \cup {[kind |-> "update", filter |-> EqK(A), assign |-> [f \in {V} |-> x]] :
            x \in {<<"2">>, Null}}
    \cup {[kind |-> "update", filter |-> EqK(A), assign |-> [f \in {K} |-> Null]]}
    \cup {[kind |-> "delete", filter |-> f] : f \in {EqK(A), EqK(<<>>), <<>>}}
    \cup {[kind |-> "updateBy", keyField |-> K, datas |-> d] :
            d \in {<<Rec(A, <<"2">>)>>, <<[f \in {K} |-> A]>>,
                   <<[f \in {V} |-> <<"2">>]>>,
                   <<Rec(A, <<"1">>), Rec(B, <<"1">>), Rec(A, <<"2">>)>>}}

\* the data lines of a body: the lines after the first that are not blank
DataLines(body) ==
    LET lines == SplitLines(body)
    IN  {i \in 2 .. Len(lines) : ~IsBlank(lines[i])}

HeaderOf(body) == parseCsvLine(SplitLines(body)[1])

InitMut ==
    /\ \E h \in HeaderChoices :
          /\ store = Stored(CreateContent(h))
          /\ call = [fn |-> "create", header0 |-> HeaderOf(CreateContent(h))]
    /\ pc = [p \in Clients |-> "idle"]
    /\ req = [p \in Clients |-> NoRequest]
    /\ loc = [p \in Clients |-> NoLocals]
    /\ calls = [p \in Clients |-> <<>>]
    /\ ops = 0

\* execute() of a mutation, start to end
Mutate ==
    \E plan \in MutPlans :
        LET out == execute(store.body, plan)
        IN  /\ out.error = "none"
            /\ Cardinality(DataLines(out.csvContent)) <= MaxRows
            /\ store' = Stored(out.csvContent)
            /\ call' = [fn |-> "execute", header0 |-> call.header0,
                        csvContent |-> store.body, plan |-> plan, out |-> out]
            /\ UNCHANGED <<pc, req, loc, calls, ops>>

NextMut == Mutate

SpecMut == InitMut /\ [][NextMut]_vars

-----------------------------------------------------------------------------
(* Claims about the mutation executor, checked under SpecMut *)

\* the row the executors build from data line i of a body
RowAt(body, i) == RowOf(HeaderOf(body), parseCsvLine(SplitLines(body)[i]))

\* the data lines of the body whose row the plan's predicate accepts
MatchedLines(body, plan) ==
    {i \in DataLines(body) : shouldHandleData(plan, RowAt(body, i))}

\* C4: affectedCount is the number of existing rows that satisfy the
\* operation's predicate (dropped and replaced ones included) plus the number
\* of appended rows.
C4_AffectedCount ==
    call.fn = "execute"
    => call.out.affectedCount
          = Cardinality(MatchedLines(call.csvContent, call.plan))
            + Len(appendRows(call.plan))

\* a delete that dropped one of two rows, and an updateBy that replaced one
C4_Witness ==
    /\ call.fn = "execute"
    /\ call.plan.kind \in {"delete", "updateBy"}
    /\ Cardinality(DataLines(call.csvContent)) = 2
    /\ Cardinality(MatchedLines(call.csvContent, call.plan)) = 1
    /\ call.out.affectedCount = 1

\* C5: the header line of the stored body decodes to the field names the
\* table was created with, whatever mutations have run since.
C5_HeaderImmutable == HeaderOf(store.body) = call.header0

\* C6: every record a mutation serializes (updated, appended or passed
\* through) has exactly one value per header field; stated for the tables
\* created with the header k,v.
C6_OneValuePerField ==
    (call.fn = "execute" /\ call.header0 = TableHeaders)
    => \A i \in DOMAIN call.out.records :
          Len(call.out.records[i]) = Len(HeaderOf(call.csvContent))

-----------------------------------------------------------------------------
(* The pure functions, applied to inputs drawn from bounded sets: the        *)
(* initial state holds the arguments in call, the one step applies the       *)
(* function to them.  The store and the clients stand still.                 *)

Idle ==
    /\ store = Absent
    /\ pc = [p \in Clients |-> "idle"]
    /\ req = [p \in Clients |-> NoRequest]
    /\ loc = [p \in Clients |-> NoLocals]
    /\ calls = [p \in Clients |-> <<>>]
    /\ ops = 0

StaysIdle == UNCHANGED <<store, pc, req, loc, calls, ops>>

\* all strings over chars of length at most n
StringsUpTo(chars, n) == UNION {[1 .. m -> chars] : m \in 0 .. n}

\* the query that returns every row
SelectAll ==
    [filter |-> <<>>, offset |-> 0, limit |-> MAX_VALUE, orderField |-> Null,
     orderDesc |-> FALSE, fieldNames |-> <<>>]

(* The codec: records are encoded as insertInto writes them into the table   *)
(* created with the header k,v, and decoded as selectFrom reads them.        *)

MaxValLen == 2

CodecChars == {"a", COMMA, QUOTE, NL}

CodecValues == StringsUpTo(CodecChars, MaxValLen)

CodecRecords ==
    {<<Rec(k, v)>> : k, v \in CodecValues}
    \cup {<<Rec(k, v), Rec(A, <<"1">>)>> : k, v \in CodecValues}

InitCodec ==
    /\ Idle
    /\ \E records \in CodecRecords : call = [fn |-> "input", records |-> records]

RoundTrip ==
    /\ call.fn = "input"
    /\ LET body == execute(CreateContent(TableHeaders),
                           [kind |-> "insert", rows |-> call.records]).csvContent
       IN  call' = [fn |-> "roundtrip", records |-> call.records, body |-> body,
                    decoded |-> fetch(body, SelectAll).rows]
    /\ StaysIdle

SpecCodec == InitCodec /\ [][RoundTrip]_vars

\* C7: decoding the encoding of a sequence of records, whose values may hold
\* commas, quotes and newlines, gives the same sequence of records back.
C7_RoundTrip == call.fn = "roundtrip" => call.decoded = call.records

(* The filter *)

MaxPreds == 2

FilterValues == {<<>>, A, B, <<"1">>, <<"a", CR>>}

\* records in which k is absent, empty or set
FilterRows ==
    {[f \in {V} |-> <<"1">>]} \cup {Rec(x, <<"1">>) : x \in FilterValues}

PredChoices ==
    {Pred(o, K, x) : o \in {"eq", "notEq"}, x \in {Null, <<>>, A}}
    \cup {PredIn(o, K, x) : o \in {"in", "notIn"}, x \in {{Null}, {<<>>, A}}}
    \cup {Pred("like", K, <<"%">>), Pred("like", K, <<"a", "_">>),
          Pred("gt", K, A), Pred("le", V, <<"1">>), Pred("lt", K, A)}

Filters == UNION {[1 .. n -> PredChoices] : n \in 0 .. MaxPreds}

InitFilter ==
    /\ Idle
    /\ \E row \in FilterRows, filters \in Filters :
          call = [fn |-> "input", row |-> row, filters |-> filters]

ApplyFilter ==
    /\ call.fn = "input"
    /\ call' = [fn |-> "test", row |-> call.row, filters |-> call.filters,
                out |-> test(call.filters, call.row)]
    /\ StaysIdle

SpecFilter == InitFilter /\ [][ApplyFilter]_vars

\* the record with the field present and empty, otherwise the same
WithEmpty(row, field) ==
    [f \in DOMAIN row \cup {field} |-> IF f = field THEN <<>> ELSE row[f]]

\* C8: eq, notEq, in and notIn give the same result on a record that lacks the
\* field as on the same record with the field present and empty.
C8_NullEquivalence ==
    call.fn = "test"
    => \A i \in DOMAIN call.filters :
          (/\ call.filters[i].op \in {"eq", "notEq", "in", "notIn"}
           /\ call.filters[i].field \notin DOMAIN call.row)
          => PredTest(call.filters[i], call.row)
                = PredTest(call.filters[i], WithEmpty(call.row, call.filters[i].field))

Permuted(filters, pi) == [i \in DOMAIN filters |-> filters[pi[i]]]

\* C9: test is true iff every predicate of the filter is; the empty filter
\* accepts every record; the order of the predicates does not matter.
C9_Conjunction ==
    call.fn = "test"
    => /\ call.out = (\A i \in DOMAIN call.filters :
                         PredTest(call.filters[i], call.row))
       /\ (call.filters = <<>> => call.out)
       /\ \A pi \in Permutations(DOMAIN call.filters) :
             test(Permuted(call.filters, pi), call.row) = call.out

\* a filter whose first predicate holds and whose second does not
C9_Witness ==
    /\ call.fn = "test"
    /\ Len(call.filters) = 2
    /\ PredTest(call.filters[1], call.row)
    /\ ~PredTest(call.filters[2], call.row)
    /\ ~call.out

(* The query executor *)

MaxQRows  == 3
MaxOffset == 3
MaxLimit  == 2

SortValues == {<<"2">>, <<"1", "2">>, <<"a">>}

QueryRecords == {Rec(k, v) : k \in {A, B}, v \in SortValues}

QueryTables == UNION {[1 .. n -> QueryRecords] : n \in 0 .. MaxQRows}

SortedQueries ==
    {[filter |-> f, offset |-> k, limit |-> m, orderField |-> V,
      orderDesc |-> d, fieldNames |-> <<>>] :
        f \in {<<>>, EqK(A)}, k \in 0 .. MaxOffset,
        m \in (0 .. MaxLimit) \cup {MAX_VALUE}, d \in BOOLEAN}

\* the table k,v that holds the records, as insertInto writes it
TableOf(records) ==
    NewCsv(TableHeaders,
           [i \in DOMAIN records |-> prepareRecord(TableHeaders, records[i])])

InitQuery ==
    /\ Idle
    /\ \E records \in QueryTables, q \in SortedQueries :
          call = [fn |-> "input", records |-> records, query |-> q]

Select ==
    /\ call.fn = "input"
    /\ call' = [fn |-> "fetch", records |-> call.records, query |-> call.query,
                out |-> fetch(TableOf(call.records), call.query)]
    /\ StaysIdle

SpecQuery == InitQuery /\ [][Select]_vars

\* the records the filter accepts, in file order
Matching(records, filters) ==
    SelectSeq(records, LAMBDA r : \A i \in DOMAIN filters : PredTest(filters[i], r))

\* row j comes before row i in the stable sort of m
ComesBefore(m, j, i, field, desc) ==
    LET c == compareValue(m[j][field], m[i][field])
    IN  \/ (IF desc THEN c > 0 ELSE c < 0)
        \/ (c = 0 /\ j < i)

StableSort(m, field, desc) ==
    [r \in DOMAIN m |->
        m[CHOOSE i \in DOMAIN m :
            Cardinality({j \in DOMAIN m : ComesBefore(m, j, i, field, desc)}) = r - 1]]

\* C10: a sorted query with offset k and limit m returns the rows at positions
\* [k, min(k + m, N)) of the stable sort of the N matching rows, none if k >= N.
C10_Pagination ==
    call.fn = "fetch"
    => LET m == Matching(call.records, call.query.filter)
           sorted == StableSort(m, call.query.orderField, call.query.orderDesc)
           k == call.query.offset
           e == Min(k + call.query.limit, Len(m))
       IN  /\ call.out.error = "none"
           /\ call.out.rows = IF k >= Len(m) THEN <<>> ELSE SubSeq(sorted, k + 1, e)

\* a descending page that starts inside the result and cuts a tie
C10_Witness ==
    /\ call.fn = "fetch"
    /\ call.query.orderDesc /\ call.query.offset = 1 /\ call.query.limit = 1
    /\ Len(Matching(call.records, call.query.filter)) = 3
    /\ Len(call.out.rows) = 1
    /\ \E i, j \in DOMAIN call.records :
          /\ i < j
          /\ call.records[i][V] = call.records[j][V]
          /\ call.records[i][K] # call.records[j][K]
          /\ call.out.rows[1] = call.records[j]

-----------------------------------------------------------------------------
(* Further claims about the facade, checked under Spec *)

IsSelect(p) == req[p].op = "select"

\* C11: a select built with a negative offset or a negative limit ends with the
\* error the builder throws: no request is made for it, no rows are returned.
C11_NegativeRejected ==
    \A p \in Clients :
        (IsSelect(p) /\ (req[p].query.offset < 0 \/ req[p].query.limit < 0))
        => /\ pc[p] = "done"
           /\ loc[p].result = "Error"
           /\ calls[p] = <<>>
           /\ loc[p].rows = <<>>

\* a select with a negative offset over a table holding a row it would match
C11_Witness ==
    \E p \in Clients :
        /\ IsSelect(p) /\ req[p].query.offset < 0 /\ req[p].query.limit >= 0
        /\ pc[p] = "done"
        /\ store.exists
        /\ fetch(store.body, [req[p].query EXCEPT !.offset = 0]).rows # <<>>

-----------------------------------------------------------------------------
(* Further claims about the mutation executor, checked under SpecMut *)

IsExecute(kind) == call.fn = "execute" /\ call.plan.kind = kind

\* the data lines of a body, in file order
DataLineSeq(body) ==
    SelectSeq([i \in 1 .. Len(SplitLines(body)) |-> i],
              LAMBDA i : i \in DataLines(body))

\* the j-th existing row of the body execute() was given
OldRow(j) == RowAt(call.csvContent, DataLineSeq(call.csvContent)[j])

\* the values of record d under the headers, absent and null ones empty
ValuesOf(headers, d) ==
    [n \in DOMAIN headers |->
        IF headers[n] \in DOMAIN d /\ ~IsNullish(d[headers[n]])
        THEN d[headers[n]] ELSE <<>>]

\* record i of the value() calls is the one the map holds for key
IsReplacement(datas, keyField, key, i) ==
    /\ KeyOf(Get(datas[i], keyField)) = key
    /\ \A j \in DOMAIN datas : KeyOf(Get(datas[j], keyField)) = key => j <= i

\* C12: updateBy writes, for every existing row whose key is a key of the map,
\* the replacement record's values in header order, empty where the record has
\* no value for a header field, and nothing of the row that was there.
C12_ReplacesWholeRow ==
    IsExecute("updateBy")
    => LET plan == call.plan
           headers == HeaderOf(call.csvContent)
       IN  \A j \in DOMAIN DataLineSeq(call.csvContent) :
             \A i \in DOMAIN plan.datas :
               (/\ plan.keyField \in DOMAIN OldRow(j)
                /\ IsReplacement(plan.datas, plan.keyField,
                                 OldRow(j)[plan.keyField], i))
               => /\ j \in DOMAIN call.out.records
                  /\ call.out.records[j] = ValuesOf(headers, plan.datas[i])

\* a row with a value in v replaced by a record that has only k
C12_Witness ==
    /\ IsExecute("updateBy")
    /\ \E j \in DOMAIN DataLineSeq(call.csvContent) :
          /\ DOMAIN OldRow(j) = {K, V}
          /\ OldRow(j)[K] = A /\ OldRow(j)[V] # <<>>
          /\ DOMAIN call.plan.datas = {1}
          /\ DOMAIN call.plan.datas[1] = {K}
          /\ call.out.records[j] = <<A, <<>>>>

\* the existing row j has a key-field value that is a key of the map
InMap(plan, row) ==
    /\ plan.keyField \in DOMAIN row
    /\ \E i \in DOMAIN plan.datas :
          KeyOf(Get(plan.datas[i], plan.keyField)) = row[plan.keyField]

\* the j-th row of the body execute() has produced
NewRow(j) == RowAt(call.out.csvContent, DataLineSeq(call.out.csvContent)[j])

\* C13: updateBy leaves the number of data rows as it was, leaves every row
\* whose key is not a key of the map as it was, and counts the existing rows
\* whose key is one.
C13_NoInsertNoTouch ==
    IsExecute("updateBy")
    => LET old == DataLineSeq(call.csvContent)
           new == DataLineSeq(call.out.csvContent)
       IN  /\ Len(new) = Len(old)
           /\ \A j \in DOMAIN old :
                 ~InMap(call.plan, OldRow(j)) => NewRow(j) = OldRow(j)
           /\ call.out.affectedCount
                 = Cardinality({j \in DOMAIN old : InMap(call.plan, OldRow(j))})

\* the rows a body decodes to, in file order
RowsOf(body) ==
    [j \in DOMAIN DataLineSeq(body) |-> RowAt(body, DataLineSeq(body)[j])]

\* C14: a delete whose filter matches no row returns 0 and writes a body that
\* decodes to the header and the rows, in order, of the body it read.
C14_DeleteNothing ==
    (IsExecute("delete") /\ MatchedLines(call.csvContent, call.plan) = {})
    => /\ call.out.affectedCount = 0
       /\ HeaderOf(call.out.csvContent) = HeaderOf(call.csvContent)
       /\ RowsOf(call.out.csvContent) = RowsOf(call.csvContent)

\* C15: an insert of K rows returns K and writes a body that decodes to the
\* rows of the body it read, as they were, followed by the K inserted rows, each
\* with the empty string for the header fields it has no value for.
C15_InsertAppends ==
    IsExecute("insert")
    => LET headers == HeaderOf(call.csvContent)
           rows    == call.plan.rows
       IN  /\ call.out.affectedCount = Len(rows)
           /\ RowsOf(call.out.csvContent)
                 = RowsOf(call.csvContent)
                   \o [i \in DOMAIN rows |->
                         RowOf(headers, ValuesOf(headers, rows[i]))]

\* the row update() makes of a row it matches: each assigned header field set
\* to the stringified value, empty for null, the others as they were
Assigned(row, assign) ==
    [f \in DOMAIN row |->
        IF f \in DOMAIN assign
        THEN (IF IsNullish(assign[f]) THEN <<>> ELSE assign[f])
        ELSE row[f]]

\* C16: update returns the number of rows its filter matches, and a select run
\* on the body it wrote, with no other write in between, returns the rows of
\* the body it read, the matching ones with their assigned fields set and
\* their other fields as they were, the others unchanged.
C16_UpdateThenSelect ==
    IsExecute("update")
    => LET old == RowsOf(call.csvContent)
           got == fetch(call.out.csvContent, SelectAll)
       IN  /\ call.out.affectedCount
                 = Cardinality({j \in DOMAIN old : test(call.plan.filter, old[j])})
           /\ got.error = "none"
           /\ got.rows = [j \in DOMAIN old |->
                            IF test(call.plan.filter, old[j])
                            THEN Assigned(old[j], call.plan.assign)
                            ELSE old[j]]

-----------------------------------------------------------------------------
(* Claims about createIfNotExist, create and the reads, checked under Spec *)

\* the step is one of client p's operation
Acts(p) == <<pc[p], req[p], calls[p]>>' # <<pc[p], req[p], calls[p]>>

\* what a step of a createIfNotExist of client p has to look like
CreateIfNotExistStep(p) ==
    LET probe == calls'[p][1]
        n     == Len(calls'[p])
    IN  /\ probe.m = "probe"
        /\ probe.status # "NotFound"
              => /\ n = 1 /\ pc'[p] = "done"
                 /\ loc'[p].result = probe.status
                 /\ store' = store
        /\ probe.status = "NotFound"
              => \/ n = 1 /\ pc'[p] = "write" /\ store' = store
                 \/ /\ n = 2 /\ pc'[p] = "done"
                    /\ calls'[p][2].m = "write"
                    /\ calls'[p][2].sha = Null
                    /\ loc'[p].result = calls'[p][2].status

\* C17: createIfNotExist first probes; if the probe succeeds or fails with
\* anything but NotFound the operation is over with that outcome, without a
\* write and with the stored object as it was; only after NotFound it writes.
C17_CreateIffNotFound ==
    [][\A p \in Clients :
          (Acts(p) /\ req'[p].op = "createIfNotExist") => CreateIfNotExistStep(p)]_vars

\* a createIfNotExist over a table that holds a row has ended on its probe,
\* without a write
C17_Witness ==
    /\ store.exists /\ DataLines(store.body) # {}
    /\ \E p \in Clients :
          /\ req[p].op = "createIfNotExist" /\ pc[p] = "done"
          /\ Len(calls[p]) = 1 /\ calls[p][1].status = "ok"

\* what a step of a create of client p has to look like
CreateStep(p) ==
    LET put == calls'[p][1]
    IN  /\ Len(calls'[p]) = 1 /\ pc'[p] = "done"
        /\ put.m = "write" /\ put.sha = Null
        /\ HeaderOf(put.content) = req'[p].headers
        /\ DataLines(put.content) = {}
        /\ loc'[p].result = put.status
        /\ store.exists => put.status # "ok"
        /\ store' = IF put.status = "ok" THEN Stored(put.content) ELSE store

\* C18: create sends one PUT, without a sha, of a body that holds the header
\* and no row; when the object exists the PUT fails and the stored body and
\* sha stay as they were.
C18_CreateNeverOverwrites ==
    [][\A p \in Clients :
          (Acts(p) /\ req'[p].op = "create") => CreateStep(p)]_vars

\* a create has failed on a table that holds a row
C18_Witness ==
    /\ store.exists /\ DataLines(store.body) # {}
    /\ \E p \in Clients :
          /\ req[p].op = "create" /\ pc[p] = "done"
          /\ loc[p].result = "Exists"

\* what a step of a select of client p has to look like
SelectStep(p) ==
    /\ store' = store
    /\ pc'[p] = "done"
    /\ \A i \in DOMAIN calls'[p] : calls'[p][i].m = "read"
    /\ Len(calls'[p]) = IF BuilderThrows(req'[p].query) THEN 0 ELSE 1

\* C19: a select, fetch() or fetchOne(), makes one request, the read of the
\* table's object, and leaves the stored object as it was.
C19_SelectReadOnly ==
    [][\A p \in Clients :
          (Acts(p) /\ req'[p].op = "select") => SelectStep(p)]_vars

\* a fetchOne has returned a row of a table that holds one
C19_Witness ==
    /\ store.exists /\ DataLines(store.body) # {}
    /\ \E p \in Clients :
          /\ IsSelect(p) /\ req[p].one /\ pc[p] = "done"
          /\ Len(calls[p]) = 1 /\ calls[p][1].status = "ok"
          /\ Len(loc[p].rows) = 1

\* what a step of a select or a mutation of client p whose first request, the
\* read, has failed has to look like
FailedReadStep(p) ==
    /\ Len(calls'[p]) = 1
    /\ pc'[p] = "done"
    /\ loc'[p].result = calls'[p][1].status
    /\ loc'[p].rows = <<>>
    /\ loc'[p].affectedCount = 0
    /\ store' = store

\* C20: when the read a select or a mutation starts with fails, the operation
\* is over with that error: it returns no rows and no count, makes no further
\* request, and the stored object is as it was.
C20_FailedRead ==
    [][\A p \in Clients :
          (/\ Acts(p)
           /\ req'[p].op \in {"select", "mutation"}
           /\ calls'[p] # <<>>
           /\ calls'[p][1].m = "read"
           /\ calls'[p][1].status # "ok")
          => FailedReadStep(p)]_vars

\* a mutation of a table that holds a row has ended on a failed read
C20_Witness ==
    /\ store.exists /\ DataLines(store.body) # {}
    /\ \E p \in Clients :
          /\ IsMutation(p) /\ pc[p] = "done"
          /\ Len(calls[p]) = 1 /\ calls[p][1].status \in Failures
          /\ loc[p].result = calls[p][1].status

-----------------------------------------------------------------------------
(* The two executors on short bodies, the empty one among them: the initial  *)
(* state holds a body and a mutation plan, the one step runs the query       *)
(* executor and the mutation executor on the body.                           *)

MaxBodyLen == 2

DecodeChars == {"k", NL, SP}

DecodeBodies == StringsUpTo(DecodeChars, MaxBodyLen)

InitDecode ==
    /\ Idle
    /\ \E body \in DecodeBodies, plan \in MutPlans :
          call = [fn |-> "input", body |-> body, plan |-> plan]

Decode ==
    /\ call.fn = "input"
    /\ call' = [fn |-> "decode", body |-> call.body, plan |-> call.plan,
                fetched |-> fetch(call.body, SelectAll),
                executed |-> execute(call.body, call.plan)]
    /\ StaysIdle

SpecDecode == InitDecode /\ [][Decode]_vars

\* C21: on a body without a header line, the empty body, the query executor
\* and the mutation executor fail: no rows, no affectedCount, no new body.
C21_NoHeaderFails ==
    (call.fn = "decode" /\ call.body = <<>>)
    => /\ call.fetched.error # "none"
       /\ call.executed.error # "none"

-----------------------------------------------------------------------------
(* The comparator on short strings of digits and letters *)

MaxCmpLen == 2

CompareChars == {"1", "2", "a"}

CompareValues == StringsUpTo(CompareChars, MaxCmpLen)

InitCompare ==
    /\ Idle
    /\ \E a, b \in CompareValues : call = [fn |-> "input", a |-> a, b |-> b]

Compare ==
    /\ call.fn = "input"
    /\ call' = [fn |-> "compareValue", a |-> call.a, b |-> call.b,
                out |-> compareValue(call.a, call.b)]
    /\ StaysIdle

SpecCompare == InitCompare /\ [][Compare]_vars

Sign(n) == IF n < 0 THEN -1 ELSE IF n > 0 THEN 1 ELSE 0

\* the whole of s is a number: digits, and at least one
IsNumber(s) == s # <<>> /\ \A i \in DOMAIN s : s[i] \in Digits

\* C22: compare is the numeric comparison when both strings are numbers as a
\* whole, and the natural string order in every other case, in which two
\* different strings never compare as equal.
C22_Compare ==
    call.fn = "compareValue"
    => IF IsNumber(call.a) /\ IsNumber(call.b)
       THEN Sign(call.out) = Sign(DigitRun(call.a, 1, 0) - DigitRun(call.b, 1, 0))
       ELSE /\ Sign(call.out) = Sign(localeCompare(call.a, call.b))
            /\ call.a # call.b => call.out # 0

-----------------------------------------------------------------------------
(* Further claims about the filter, checked under SpecFilter *)

IsOrdering(f) == f.op \in {"gt", "ge", "lt", "le"}

\* C23: gt, ge, lt and le are false when the comparison value is null or
\* undefined, or the record's field is absent or empty; otherwise they are the
\* sign test of compare(field value, value).
C23_OrderingNull ==
    call.fn = "test"
    => \A i \in DOMAIN call.filters :
          LET f == call.filters[i]
              v == Get(call.row, f.field)
          IN  IsOrdering(f)
              => PredTest(f, call.row)
                    = IF IsNullish(f.value) \/ IsNullish(v) \/ v = <<>>
                      THEN FALSE
                      ELSE Tester(f.op, compareValue(v, f.value))

\* string s from position j matches pattern p from position i, % standing for
\* any run of characters, _ for any one character, the rest for itself
RECURSIVE SqlMatch(_, _, _, _)
SqlMatch(p, i, s, j) ==
    IF i > Len(p) THEN j > Len(s)
    ELSE IF p[i] = "%"
         THEN SqlMatch(p, i + 1, s, j) \/ (j <= Len(s) /\ SqlMatch(p, i, s, j + 1))
    ELSE IF p[i] = "_"
         THEN j <= Len(s) /\ SqlMatch(p, i + 1, s, j + 1)
    ELSE j <= Len(s) /\ s[j] = p[i] /\ SqlMatch(p, i + 1, s, j + 1)

\* C24: like is true on a record iff the whole value of the field, the empty
\* string when absent, matches the pattern.
C24_Like ==
    call.fn = "test"
    => \A i \in DOMAIN call.filters :
          LET f == call.filters[i]
              v == IF f.field \in DOMAIN call.row THEN call.row[f.field] ELSE <<>>
          IN  f.op = "like" => PredTest(f, call.row) = SqlMatch(f.value, 1, v, 1)

-----------------------------------------------------------------------------
(* Claims about the output of a mutation, checked under SpecMut *)

\* the records a mutation keeps of the data lines seq[j..] of a body, in file
\* order: the parsed values of a row its predicate rejects, the transformed
\* row under the headers of one it accepts, nothing for a dropped one
RECURSIVE Kept(_, _, _, _)
Kept(body, plan, seq, j) ==
    IF j > Len(seq) THEN <<>>
    ELSE LET values == parseCsvLine(SplitLines(body)[seq[j]])
             row    == RowOf(HeaderOf(body), values)
             new    == handleData(plan, row)
         IN  (IF ~shouldHandleData(plan, row) THEN <<values>>
              ELSE IF new = <<>> THEN <<>>
              ELSE <<ValuesOf(HeaderOf(body), new[1])>>)
             \o Kept(body, plan, seq, j + 1)

\* C25: the records of a mutation's output are the kept rows in file order,
\* rejected rows with their parsed values, followed by the appended rows in
\* the order supplied; the body is the header line (the header names joined
\* by commas) and these rows, encoded, joined by newlines.
C25_OutputOrder ==
    call.fn = "execute"
    => LET body     == call.csvContent
           headers  == HeaderOf(body)
           supplied == appendRows(call.plan)
           rows     == Kept(body, call.plan, DataLineSeq(body), 1)
                       \o [i \in DOMAIN supplied |-> ValuesOf(headers, supplied[i])]
       IN  /\ call.out.records = rows
           /\ call.out.csvContent
                 = Join(<<Join(headers, <<COMMA>>)>>
                           \o [i \in DOMAIN rows |-> EncodeRecord(rows[i])],
                        <<NL>>)

\* an insert into a table that holds a row with fewer values than the header
\* has fields: the row is kept as parsed, the inserted row comes after it
C25_Witness ==
    /\ IsExecute("insert")
    /\ Len(appendRows(call.plan)) = 1
    /\ Len(DataLineSeq(call.csvContent)) = 1
    /\ Len(parseCsvLine(SplitLines(call.csvContent)[DataLineSeq(call.csvContent)[1]]))
          < Len(HeaderOf(call.csvContent))
    /\ Len(call.out.records) = 2
    /\ Len(call.out.records[1]) < Len(call.out.records[2])

-----------------------------------------------------------------------------
(* Claims about concurrent operations, checked under Spec *)

\* client p's operation is a createIfNotExist whose probe returned NotFound
\* and whose write has been answered
HasCreated(p) ==
    /\ req[p].op = "createIfNotExist" /\ pc[p] = "done"
    /\ Len(calls[p]) = 2 /\ calls[p][1].status = "NotFound"

\* C26: of two createIfNotExist calls whose probes both returned NotFound at
\* most one write succeeds; the other call ends with the error of its write,
\* and a write that finds the object leaves it as it is.
C26_CreateRace ==
    /\ [](\A p, q \in Clients :
            (p # q /\ HasCreated(p) /\ HasCreated(q))
            => /\ ~(loc[p].result = "ok" /\ loc[q].result = "ok")
               /\ loc[p].result = calls[p][2].status)
    /\ [][\A p \in Clients :
            (/\ Acts(p) /\ req'[p].op = "createIfNotExist"
             /\ Len(calls'[p]) = 2 /\ store.exists)
            => /\ calls'[p][2].status # "ok"
               /\ store' = store]_vars

\* both calls probed before either wrote: one has created the table, the other
\* has ended with the store's refusal
C26_Witness ==
    \E p, q \in Clients :
        /\ p # q /\ HasCreated(p) /\ HasCreated(q)
        /\ loc[p].result = "ok" /\ loc[q].result = "Exists"
        /\ store.body = calls[p][2].content

\* C27: the write of a mutation is refused as a conflict only when another
\* client's write has landed between the mutation's probe and its write; a
\* mutation no write has overlapped never ends with a conflict.
C27_ConflictOnlyIfRaced ==
    \A p \in Clients :
        (IsMutation(p) /\ HasWritten(p) /\ LastCall(p).status = "Conflict")
        => loc[p].raced # {}

\* a mutation has ended with a conflict after another client's write landed
\* between its probe and its write
C27_Witness ==
    \E p, q \in Clients :
        /\ p # q
        /\ IsMutation(p) /\ pc[p] = "done" /\ loc[p].result = "Conflict"
        /\ loc[p].raced = {q}
        /\ store.body = LastCall(q).content

-----------------------------------------------------------------------------
(* Claims relating mutations and queries, checked under SpecMut *)

\* the query of the rows the filter accepts: no offset, limit or projection
SelectWhere(filter) == [SelectAll EXCEPT !.filter = filter]

\* C28: on one body and one filter, the affectedCount of update and of delete
\* is the number of rows select returns.
C28_ExecutorsAgree ==
    (IsExecute("update") \/ IsExecute("delete"))
    => LET got == fetch(call.csvContent, SelectWhere(call.plan.filter))
       IN  got.error = "none" /\ call.out.affectedCount = Len(got.rows)

\* a delete and an update that matched one of two rows
C28_Witness ==
    /\ IsExecute("delete") \/ IsExecute("update")
    /\ Len(DataLineSeq(call.csvContent)) = 2
    /\ call.plan.filter # <<>>
    /\ call.out.affectedCount = 1
    /\ Len(fetch(call.csvContent, SelectWhere(call.plan.filter)).rows) = 1

\* C29: in the body a successful delete writes, a select with the same filter
\* finds no row and a second delete with the same filter affects none.
C29_DeleteIsFinal ==
    (IsExecute("delete") /\ call.out.error = "none")
    => LET written == call.out.csvContent
           again   == execute(written, call.plan)
       IN  /\ fetch(written, SelectWhere(call.plan.filter)).rows = <<>>
           /\ again.error = "none"
           /\ again.affectedCount = 0

\* C30: the body a mutation writes decodes to as many rows as the body it
\* read for update and updateBy, to affectedCount fewer for delete and to one
\* more per inserted record for insert.
C30_RowCount ==
    LET N       == Len(RowsOf(call.csvContent))
        written == Len(RowsOf(call.out.csvContent))
    IN  /\ (IsExecute("update") \/ IsExecute("updateBy")) => written = N
        /\ IsExecute("delete") => written = N - call.out.affectedCount
        /\ IsExecute("insert") => written = N + Len(call.plan.rows)

=============================================================================
